---- MODULE Spec2Model ----
(***************************************************************************)
(* Model of nemo/collections/tts/models/hifigan.py (HifiGanModel).         *)
(*                                                                         *)
(* Abstractions.  Network parameters are represented by an update counter  *)
(* per module (generator, mpd, msd); a gradient buffer is the set of       *)
(* backward passes (call number, loss) that deposited into it.  A waveform *)
(* is represented by its STFT coefficients: audio[b][f][t] is the complex  *)
(* bin <<re, im>> of batch element b, frequency f, frame t.  A mel tensor  *)
(* is mel[b][t] (one mel bin).  torch broadcasting is modelled by Bcast.   *)
(***************************************************************************)
EXTENDS Integers, Sequences, FiniteSets, TLC

VARIABLES
    finetune,          \* self.finetune
    HAVE_WANDB,        \* module global HAVE_WANDB
    logger,            \* class name of self.logger
    denoise_strength,  \* self.cfg.denoise_strength
    stft_bias,         \* self.stft_bias
    bias_gp,           \* history: generator parameters used by the zero-mel pass
    zero_passes,       \* history: number of zero-mel forward passes run
    params,            \* parameters of generator / mpd / msd (update counters)
    grads,             \* .grad of the parameters of each module
    optim,             \* parameter sets owned by optim_g and optim_d
    pc,                \* position inside training_step
    global_step,       \* number of completed training_step calls
    trace,             \* history: optimizer events of the current training_step
    steps,             \* history: optimizer steps over all training_step calls
    last,              \* outcome of the last validation_step / _bias_denoise call
    epoch_idxs,        \* batch indices seen in the current validation epoch
    epoch_writes,      \* tracker writes in the current validation epoch
    train_dl,          \* self._train_dl
    validation_dl,     \* self._validation_dl
    instantiated,      \* history: number of datasets instantiated by setup
    last_setup         \* outcome of the last setup_*_data call

vars == <<finetune, HAVE_WANDB, logger, denoise_strength, stft_bias, bias_gp,
          zero_passes, params, grads, optim, pc, global_step, trace, steps,
          last, epoch_idxs, epoch_writes, train_dl, validation_dl,
          instantiated, last_setup>>

trainVars == <<params, grads, optim, pc, global_step, trace, steps>>
valVars   == <<stft_bias, bias_gp, zero_passes, last, epoch_idxs, epoch_writes>>
dataVars  == <<train_dl, validation_dl, instantiated, last_setup>>
cfgVars   == <<finetune, HAVE_WANDB, logger, denoise_strength>>

----------------------------------------------------------------------------
(* Bounds *)
MaxSteps      == 2    \* training_step calls explored
MaxBatch      == 6    \* largest batch size
MaxFrames     == 2    \* frames of a batch
NumFreq       == 2    \* frequency bins of the STFT
MaxBatchIdx   == 1    \* largest batch_idx
MaxSetups     == 2    \* dataset instantiations explored

----------------------------------------------------------------------------
(* Modules and optimizers *)
Modules        == {"generator", "mpd", "msd"}
Discriminators == {"mpd", "msd"}

NoGrad == [defined |-> FALSE, from |-> {}]

\* zero_grad that clears nothing
ZeroGrad_Noop(owned, g) == g

\* optimizer.zero_grad(): zero the .grad of every owned parameter that has one
ZeroGrad(owned, g) ==
    [m \in Modules |->
        IF m \in owned /\ g[m].defined THEN [defined |-> TRUE, from |-> {}]
        ELSE g[m]]

\* loss.backward(): accumulate into .grad of every parameter in the graph
Backward(graph, tag, g) ==
    [m \in Modules |->
        IF m \in graph THEN [defined |-> TRUE, from |-> g[m].from \cup {tag}]
        ELSE g[m]]

\* optimizer.step(): update every owned parameter whose .grad is not None
OptStep(owned, g, p) ==
    [m \in Modules |->
        IF m \in owned /\ g[m].defined THEN p[m] + 1 ELSE p[m]]

\* y_hat passed without .detach()
DiscGraph_NoDetach(detached) == Discriminators \cup {"generator"}

\* parameters reached by backward through the discriminators run on y_hat
DiscGraph(detached) ==
    Discriminators \cup (IF detached THEN {} ELSE {"generator"})

UnsetOptim == [g |-> {}, d |-> {}, set |-> FALSE]

\* configure_optimizers
ConfigureOptimizers ==
    /\ pc = "idle"
    /\ ~optim.set
    /\ optim' = [g |-> {"generator"}, d |-> {"msd"} \cup {"mpd"}, set |-> TRUE]
    /\ UNCHANGED <<params, grads, pc, global_step, trace, steps>>
    /\ UNCHANGED <<valVars, dataVars, cfgVars>>

----------------------------------------------------------------------------
(* training_step, one action per optimizer-visible statement *)

\* lines 120-133: unpack the batch, run the generator
TrainingStepBegin ==
    /\ pc = "idle"
    /\ optim.set
    /\ global_step < MaxSteps
    /\ pc' = "optim_d.zero_grad"
    /\ trace' = <<>>
    /\ UNCHANGED <<params, grads, optim, global_step, steps>>
    /\ UNCHANGED <<valVars, dataVars, cfgVars>>

OptimDZeroGrad ==
    /\ pc = "optim_d.zero_grad"
    /\ grads' = ZeroGrad(optim.d, grads)
    /\ trace' = Append(trace, "optim_d.zero_grad")
    /\ pc' = "backward_d"
    /\ UNCHANGED <<params, optim, global_step, steps>>
    /\ UNCHANGED <<valVars, dataVars, cfgVars>>

\* lines 137-146: discriminators on audio_pred.detach(), manual_backward(loss_d)
BackwardD ==
    /\ pc = "backward_d"
    /\ grads' = Backward(DiscGraph(TRUE), <<global_step, "loss_d">>, grads)
    /\ trace' = Append(trace, "backward(loss_d)")
    /\ pc' = "optim_d.step"
    /\ UNCHANGED <<params, optim, global_step, steps>>
    /\ UNCHANGED <<valVars, dataVars, cfgVars>>

\* the discriminator step left out
OptimDStep_Skipped ==
    /\ pc = "optim_d.step"
    /\ pc' = "optim_g.zero_grad"
    /\ UNCHANGED <<params, grads, optim, global_step, trace, steps>>
    /\ UNCHANGED <<valVars, dataVars, cfgVars>>

OptimDStep ==
    /\ pc = "optim_d.step"
    /\ params' = OptStep(optim.d, grads, params)
    /\ trace' = Append(trace, "optim_d.step")
    /\ steps' = Append(steps, "D")
    /\ pc' = "optim_g.zero_grad"
    /\ UNCHANGED <<grads, optim, global_step>>
    /\ UNCHANGED <<valVars, dataVars, cfgVars>>

OptimGZeroGrad ==
    /\ pc = "optim_g.zero_grad"
    /\ grads' = ZeroGrad(optim.g, grads)
    /\ trace' = Append(trace, "optim_g.zero_grad")
    /\ pc' = "backward_g"
    /\ UNCHANGED <<params, optim, global_step, steps>>
    /\ UNCHANGED <<valVars, dataVars, cfgVars>>

\* lines 151-159: discriminators on audio_pred (not detached), manual_backward(loss_g)
BackwardG ==
    /\ pc = "backward_g"
    /\ grads' = Backward(DiscGraph(FALSE), <<global_step, "loss_g">>, grads)
    /\ trace' = Append(trace, "backward(loss_g)")
    /\ pc' = "optim_g.step"
    /\ UNCHANGED <<params, optim, global_step, steps>>
    /\ UNCHANGED <<valVars, dataVars, cfgVars>>

OptimGStep ==
    /\ pc = "optim_g.step"
    /\ params' = OptStep(optim.g, grads, params)
    /\ trace' = Append(trace, "optim_g.step")
    /\ steps' = Append(steps, "G")
    /\ pc' = "log_dict"
    /\ UNCHANGED <<grads, optim, global_step>>
    /\ UNCHANGED <<valVars, dataVars, cfgVars>>

\* lines 162-175: log the metrics and return
TrainingStepEnd ==
    /\ pc = "log_dict"
    /\ pc' = "idle"
    /\ global_step' = global_step + 1
    /\ UNCHANGED <<params, grads, optim, trace, steps>>
    /\ UNCHANGED <<valVars, dataVars, cfgVars>>

\* training_step as one step: lines 136-160 in order
TrainingStep ==
    LET g1 == ZeroGrad(optim.d, grads)
        g2 == Backward(DiscGraph(TRUE), <<global_step, "loss_d">>, g1)
        p1 == OptStep(optim.d, g2, params)
        g3 == ZeroGrad(optim.g, g2)
        g4 == Backward(DiscGraph(FALSE), <<global_step, "loss_g">>, g3)
        p2 == OptStep(optim.g, g4, p1)
    IN  /\ pc = "idle"
        /\ optim.set
        /\ global_step < MaxSteps
        /\ grads' = g4
        /\ params' = p2
        /\ trace' = <<"optim_d.zero_grad", "backward(loss_d)", "optim_d.step",
                      "optim_g.zero_grad", "backward(loss_g)", "optim_g.step">>
        /\ steps' = steps \o <<"D", "G">>
        /\ global_step' = global_step + 1
        /\ UNCHANGED <<optim, pc>>
        /\ UNCHANGED <<valVars, dataVars, cfgVars>>

----------------------------------------------------------------------------
(* Tensors *)

\* complex STFT bins the inputs are drawn from (on the axes, so that
\* magnitude, atan2, cos and sin are exact over the integers)
Vals == << <<0, 0>>, <<5, 0>>, <<0, -3>>, <<-13, 0>>, <<0, 8>> >>

BatchSizes == {1, 2, MaxBatch}
Seeds      == {0, 1}

RECURSIVE SumSeq(_)
SumSeq(s) == IF s = <<>> THEN 0 ELSE Head(s) + SumSeq(Tail(s))

Abs(x) == IF x < 0 THEN -x ELSE x

ISqrt(n) == CHOOSE r \in 0..n : r * r <= n /\ n < (r + 1) * (r + 1)

\* torch.atan2 on the axes, as a multiple of pi/2: 0, pi/2, pi, -pi/2
Atan2(im, re) ==
    IF im = 0 /\ re >= 0 THEN 0
    ELSE IF im > 0 THEN 1
    ELSE IF im = 0 THEN 2
    ELSE 3

Cos(k) == <<1, 0, -1, 0>>[k + 1]
Sin(k) == <<0, 1, 0, -1>>[k + 1]

\* no clamping
Clamp_None(x, lo) == x

\* torch.clamp(x, min)
Clamp(x, lo) == IF x < lo THEN lo ELSE x

\* torch broadcasting of one dimension
Broadcastable(n, m) == n = m \/ n = 1 \/ m = 1
BDim(n, m)          == IF n = 1 THEN m ELSE n
Bcast(i, n)         == IF n = 1 THEN 1 ELSE i

AudioOf(seed, B, T) ==
    [b \in 1..B |-> [f \in 1..NumFreq |-> [t \in 1..T |->
        Vals[((seed + b + f + 2 * t) % Len(Vals)) + 1]]]]

MelOf(seed, B, T) ==
    [b \in 1..B |-> [t \in 1..T |-> (seed + 2 * b + t) % 3]]

\* a batch (audio, audio_len[, audio_mel])
BatchOf(s, B, T) ==
    [audio     |-> AudioOf(s, B, T),
     audio_len |-> [b \in 1..B |-> T],
     audio_mel |-> MelOf(s, B, T)]

\* batches handed to validation_step
Batches == { BatchOf(0, B, MaxFrames) : B \in BatchSizes }

\* (audio, mel) pairs handed to _bias_denoise directly
DenoiseInputs == { BatchOf(s, B, MaxFrames) : s \in Seeds, B \in BatchSizes }

\* self.generator(x=spec): one output column per mel frame
Forward(gp, spec) ==
    [b \in 1..Len(spec) |-> [f \in 1..NumFreq |-> [t \in 1..Len(spec[b]) |->
        Vals[((gp + spec[b][t] + f) % Len(Vals)) + 1]]]]

\* torch.sqrt(real ** 2 + imag ** 2)
Mag(c) == ISqrt(c[1] * c[1] + c[2] * c[2])

\* stft inside _bias_denoise: magnitudes and phases of the bins
Stft(x) ==
    [mags  |-> [b \in 1..Len(x) |-> [f \in 1..NumFreq |-> [t \in 1..Len(x[b][f]) |->
                  Mag(x[b][f][t])]]],
     phase |-> [b \in 1..Len(x) |-> [f \in 1..NumFreq |-> [t \in 1..Len(x[b][f]) |->
                  Atan2(x[b][f][t][2], x[b][f][t][1])]]]]

\* istft inside _bias_denoise: mags * cos(phase), mags * sin(phase), broadcast
Istft(mags, phase) ==
    [b \in 1..BDim(Len(mags), Len(phase)) |-> [f \in 1..NumFreq |->
        [t \in 1..Len(mags[1][f]) |->
            << mags[Bcast(b, Len(mags))][f][t] * Cos(phase[Bcast(b, Len(phase))][f][t]),
               mags[Bcast(b, Len(mags))][f][t] * Sin(phase[Bcast(b, Len(phase))][f][t]) >>]]]

\* audio_to_melspec_precessor: one mel bin, the summed magnitude of a frame
MelSpec(x) ==
    [b \in 1..Len(x) |-> [t \in 1..Len(x[b][1]) |->
        SumSeq([f \in 1..NumFreq |-> Mag(x[b][f][t])])]]

\* F.l1_loss: mean absolute difference, kept as the pair (sum, count)
L1Loss(a, c) ==
    [sum |-> SumSeq([b \in 1..Len(a) |->
                 SumSeq([t \in 1..Len(a[b]) |-> Abs(a[b][t] - c[b][t])])]),
     n   |-> Len(a) * Len(a[1])]

ZerosLike(mel) == [b \in 1..Len(mel) |-> [t \in 1..Len(mel[b]) |-> 0]]

NoBias == [defined |-> FALSE, t |-> <<>>]

\* lines 258-260: stft of the zero-mel output, frame 0, kept with a unit frame axis
ZeroMelBias(gp, mel) ==
    [b \in 1..Len(mel) |-> [f \in 1..NumFreq |->
        << Mag(Forward(gp, ZerosLike(mel))[b][f][1]) >>]]

\* the bias recomputed on every call
CreateBias_Always(bias, gp, mel) ==
    [bias |-> [defined |-> TRUE, t |-> ZeroMelBias(gp, mel)], passes |-> 1]

\* lines 257-260: the bias is created only while self.stft_bias is None
CreateBias(bias, gp, mel) ==
    IF ~bias.defined
    THEN [bias |-> [defined |-> TRUE, t |-> ZeroMelBias(gp, mel)], passes |-> 1]
    ELSE [bias |-> bias, passes |-> 0]

\* lines 262-264: audio_mags - denoise_strength * stft_bias, clamped at 0
DenoisedMags(mags, strength, bias) ==
    [b \in 1..BDim(Len(mags), Len(bias)) |-> [f \in 1..NumFreq |->
        [t \in 1..Len(mags[1][f]) |->
            Clamp(mags[Bcast(b, Len(mags))][f][t]
                    - strength * bias[Bcast(b, Len(bias))][f][1], 0)]]]

\* _bias_denoise(audio, mel) given the bias held before the call
BiasDenoise(audio, mel, bias, gp, strength) ==
    LET cb   == CreateBias(bias, gp, mel)
        s    == Stft(audio)
        ok   == Broadcastable(Len(audio), Len(cb.bias.t))
        outm == DenoisedMags(s.mags, strength, cb.bias.t)
    IN  [status    |-> IF ok THEN "ok" ELSE "RuntimeError",
         bias      |-> cb.bias,
         passes    |-> cb.passes,
         out_phase |-> IF ok THEN s.phase ELSE <<>>,
         audio     |-> IF ok THEN Istft(outm, s.phase) ELSE <<>>]

----------------------------------------------------------------------------
(* validation_step and _bias_denoise *)

PlotLimit == 5

Min(a, c) == IF a < c THEN a ELSE c

NoLoss == [sum |-> 0, n |-> 0]

NoLast ==
    [op |-> "none", status |-> "none", batch_idx |-> -1, B |-> 0, gp |-> 0,
     logged |-> FALSE, val_loss |-> NoLoss,
     written |-> FALSE, clips |-> <<>>, specs |-> <<>>,
     in_audio |-> <<>>, out_phase |-> <<>>, out_audio |-> <<>>]

\* lines 201-218: three wandb.Audio per plotted example
RECURSIVE Clips(_)
Clips(n) ==
    IF n = 0 THEN <<>>
    ELSE Clips(n - 1) \o << <<"real audio", n - 1>>,
                            <<"generated audio", n - 1>>,
                            <<"denoised audio", n - 1>> >>

\* lines 219-239: three wandb.Image per plotted example, a fourth when fine-tuning
RECURSIVE Specs(_, _)
Specs(n, ft) ==
    IF n = 0 THEN <<>>
    ELSE Specs(n - 1, ft) \o << <<"input mel", n - 1>>,
                                <<"output mel", n - 1>>,
                                <<"denoised mel", n - 1>> >>
                          \o (IF ft THEN << <<"gt mel", n - 1>> >> ELSE <<>>)

\* line 198
PlotsAudio(batch_idx) ==
    batch_idx = 0 /\ logger = "WandbLogger" /\ HAVE_WANDB

ValidationStep(batch, batch_idx) ==
    /\ pc = "idle"
    /\ batch_idx \notin epoch_idxs
    /\ \E audio_mel  \in {IF finetune THEN batch.audio_mel ELSE MelSpec(batch.audio)} :
       \E audio_pred \in {Forward(params["generator"], audio_mel)} :
       \E den        \in {BiasDenoise(audio_pred, audio_mel, stft_bias,
                                      params["generator"], denoise_strength)} :
       LET audio_pred_mel == MelSpec(audio_pred)
           loss_mel       == L1Loss(audio_mel, audio_pred_mel)
           ok             == den.status = "ok"
           plot           == ok /\ PlotsAudio(batch_idx)
           n              == Min(PlotLimit, Len(batch.audio))
       IN  /\ stft_bias' = den.bias
           /\ bias_gp' = IF den.passes > 0 THEN params["generator"] ELSE bias_gp
           /\ zero_passes' = zero_passes + den.passes
           /\ epoch_idxs' = epoch_idxs \cup {batch_idx}
           /\ epoch_writes' = IF plot THEN epoch_writes + 1 ELSE epoch_writes
           /\ last' = [op |-> "validation_step", status |-> den.status,
                       batch_idx |-> batch_idx, B |-> Len(batch.audio),
                       gp |-> params["generator"],
                       logged |-> ok,
                       val_loss |-> IF ok THEN loss_mel ELSE NoLoss,
                       written |-> plot,
                       clips |-> IF plot THEN Clips(n) ELSE <<>>,
                       specs |-> IF plot THEN Specs(n, finetune) ELSE <<>>,
                       in_audio |-> audio_pred, out_phase |-> den.out_phase,
                       out_audio |-> den.audio]
           /\ UNCHANGED <<trainVars, dataVars, cfgVars>>

\* a direct call of _bias_denoise(audio, mel)
BiasDenoiseCall(audio, mel) ==
    \E den \in {BiasDenoise(audio, mel, stft_bias, params["generator"], denoise_strength)} :
        /\ pc = "idle"
        /\ stft_bias' = den.bias
        /\ bias_gp' = IF den.passes > 0 THEN params["generator"] ELSE bias_gp
        /\ zero_passes' = zero_passes + den.passes
        /\ last' = [NoLast EXCEPT !.op = "_bias_denoise", !.status = den.status,
                                  !.B = Len(audio), !.gp = params["generator"],
                                  !.in_audio = audio, !.out_phase = den.out_phase,
                                  !.out_audio = den.audio]
        /\ UNCHANGED <<epoch_idxs, epoch_writes>>
        /\ UNCHANGED <<trainVars, dataVars, cfgVars>>

\* the validation loop starts the next epoch: batch indices restart
ValidationEpochEnd ==
    /\ pc = "idle"
    /\ epoch_idxs # {}
    /\ epoch_idxs' = {}
    /\ epoch_writes' = 0
    /\ UNCHANGED <<stft_bias, bias_gp, zero_passes, last>>
    /\ UNCHANGED <<trainVars, dataVars, cfgVars>>

----------------------------------------------------------------------------
(* dataloader setup *)

DatasetKinds == {"MelAudioDataset", "AudioDataset"}

Cfgs ==
    [dataset           : {"absent", "not_DictConfig"} \cup DatasetKinds,
     dataloader_params : {"absent", "not_DictConfig", "DictConfig"},
     shuffle           : {"absent", "True", "False"}]

NoSetup == [op |-> "none", status |-> "none", msg |-> "",
            cfg |-> [dataset |-> "absent", dataloader_params |-> "absent",
                     shuffle |-> "absent"]]

\* dataloader_params checked only after the dataset is instantiated
SetupDataloaderFromConfig_LateCheck(cfg, shuffle_should_be, name) ==
    IF cfg.dataset \notin DatasetKinds
    THEN [status |-> "ValueError", msg |-> "No dataset for " \o name,
          made |-> 0, dl |-> [dataset |-> "none", shuffle |-> FALSE]]
    ELSE IF cfg.dataloader_params # "DictConfig"
    THEN [status |-> "ValueError", msg |-> "No dataloder_params for " \o name,
          made |-> 1, dl |-> [dataset |-> "none", shuffle |-> FALSE]]
    ELSE [status |-> "ok", msg |-> "", made |-> 1,
          dl |-> [dataset |-> cfg.dataset,
                  shuffle |-> IF shuffle_should_be /\ cfg.shuffle = "absent"
                              THEN TRUE ELSE cfg.shuffle = "True"]]

\* __setup_dataloader_from_config
SetupDataloaderFromConfig(cfg, shuffle_should_be, name) ==
    IF cfg.dataset \notin DatasetKinds
    THEN [status |-> "ValueError", msg |-> "No dataset for " \o name,
          made |-> 0, dl |-> [dataset |-> "none", shuffle |-> FALSE]]
    ELSE IF cfg.dataloader_params # "DictConfig"
    THEN [status |-> "ValueError", msg |-> "No dataloder_params for " \o name,
          made |-> 0, dl |-> [dataset |-> "none", shuffle |-> FALSE]]
    ELSE [status |-> "ok", msg |-> "", made |-> 1,
          dl |-> [dataset |-> cfg.dataset,
                  shuffle |-> IF shuffle_should_be /\ cfg.shuffle = "absent"
                              THEN TRUE ELSE cfg.shuffle = "True"]]

setup_training_data(cfg) ==
    LET r == SetupDataloaderFromConfig(cfg, TRUE, "train")
    IN  /\ pc = "idle"
        /\ instantiated < MaxSetups
        /\ train_dl' = IF r.status = "ok" THEN r.dl ELSE train_dl
        /\ instantiated' = instantiated + r.made
        /\ last_setup' = [op |-> "setup_training_data", status |-> r.status,
                          msg |-> r.msg, cfg |-> cfg]
        /\ UNCHANGED validation_dl
        /\ UNCHANGED <<trainVars, valVars, cfgVars>>

setup_validation_data(cfg) ==
    LET r == SetupDataloaderFromConfig(cfg, FALSE, "validation")
    IN  /\ pc = "idle"
        /\ instantiated < MaxSetups
        /\ validation_dl' = IF r.status = "ok" THEN r.dl ELSE validation_dl
        /\ instantiated' = instantiated + r.made
        /\ last_setup' = [op |-> "setup_validation_data", status |-> r.status,
                          msg |-> r.msg, cfg |-> cfg]
        /\ UNCHANGED train_dl
        /\ UNCHANGED <<trainVars, valVars, cfgVars>>

----------------------------------------------------------------------------
(* Specifications *)

DenoiseStrengths == {0, 1, 2}

\* the state after __init__
Init ==
    /\ train_dl \in {[dataset |-> d, shuffle |-> TRUE] : d \in DatasetKinds}
    /\ validation_dl = [dataset |-> "none", shuffle |-> FALSE]
    /\ finetune = (train_dl.dataset = "MelAudioDataset")
    /\ HAVE_WANDB \in BOOLEAN
    /\ logger \in {"WandbLogger", "TensorBoardLogger"}
    /\ denoise_strength \in DenoiseStrengths
    /\ stft_bias = NoBias
    /\ bias_gp = 0
    /\ zero_passes = 0
    /\ params = [m \in Modules |-> 0]
    /\ grads = [m \in Modules |-> NoGrad]
    /\ optim = UnsetOptim
    /\ pc = "idle"
    /\ global_step = 0
    /\ trace = <<>>
    /\ steps = <<>>
    /\ last = NoLast
    /\ epoch_idxs = {}
    /\ epoch_writes = 0
    /\ instantiated = 0
    /\ last_setup = NoSetup

\* training_step statement by statement
NextTrain ==
    \/ ConfigureOptimizers
    \/ TrainingStepBegin
    \/ OptimDZeroGrad
    \/ BackwardD
    \/ OptimDStep
    \/ OptimGZeroGrad
    \/ BackwardG
    \/ OptimGStep
    \/ TrainingStepEnd

SpecTrain == Init /\ [][NextTrain]_vars

\* whole calls of training_step, validation_step and _bias_denoise
Next ==
    \/ ConfigureOptimizers
    \/ TrainingStep
    \/ \E batch \in Batches, batch_idx \in 0..MaxBatchIdx : ValidationStep(batch, batch_idx)
    \/ \E batch \in Batches : BiasDenoiseCall(batch.audio, batch.audio_mel)
    \/ ValidationEpochEnd

\* the denoised audio only feeds the plots: one denoise_strength is explored
InitVal == Init /\ denoise_strength = 2

Spec == InitVal /\ [][Next]_vars

\* _bias_denoise called directly, between generator updates
NextDenoise ==
    \/ ConfigureOptimizers
    \/ TrainingStep
    \/ \E inp \in DenoiseInputs : BiasDenoiseCall(inp.audio, inp.audio_mel)

\* the tracker plays no part in _bias_denoise: one logger is explored
InitDenoise == Init /\ logger = "WandbLogger" /\ HAVE_WANDB

SpecDenoise == InitDenoise /\ [][NextDenoise]_vars

NextData ==
    \/ \E cfg \in Cfgs : setup_training_data(cfg)
    \/ \E cfg \in Cfgs : setup_validation_data(cfg)

SpecData == Init /\ [][NextData]_vars

----------------------------------------------------------------------------
(* Properties *)

Max(a, c) == IF a > c THEN a ELSE c

\* C1: stft_bias is None after construction; the first _bias_denoise computes
\* it from one generator pass on an all-zero mel; afterwards, whatever
\* training_step, validation_step and _bias_denoise calls follow, stft_bias
\* keeps that value and no further zero-mel pass is run.
C1_BiasMemoized ==
    /\ stft_bias = NoBias
    /\ [](/\ zero_passes <= 1
          /\ stft_bias.defined <=> (zero_passes = 1)
          /\ stft_bias.defined =>
                stft_bias.t = ZeroMelBias(bias_gp, [b \in 1..Len(stft_bias.t) |-> <<0>>]))
    /\ [][stft_bias.defined =>
            /\ stft_bias' = stft_bias
            /\ zero_passes' = zero_passes]_vars

\* the bias outlived a generator update and a later call with another shape
C1_Witness ==
    /\ stft_bias.defined
    /\ bias_gp < params["generator"]
    /\ last.status = "ok"
    /\ last.gp = params["generator"]
    /\ last.B # Len(stft_bias.t)

FullTrace ==
    <<"optim_d.zero_grad", "backward(loss_d)", "optim_d.step",
      "optim_g.zero_grad", "backward(loss_g)", "optim_g.step">>

PcIndex ==
    [p \in {"optim_d.zero_grad", "backward_d", "optim_d.step", "optim_g.zero_grad",
            "backward_g", "optim_g.step", "log_dict"} |->
        CASE p = "optim_d.zero_grad" -> 0
          [] p = "backward_d"        -> 1
          [] p = "optim_d.step"      -> 2
          [] p = "optim_g.zero_grad" -> 3
          [] p = "backward_g"        -> 4
          [] p = "optim_g.step"      -> 5
          [] p = "log_dict"          -> 6]

\* C2: inside every training_step the events are optim_d.zero_grad,
\* backward(loss_d), optim_d.step, optim_g.zero_grad, backward(loss_g),
\* optim_g.step, in this order and once each; over all calls the optimizer
\* steps alternate D, G, D, G, ...
C2_DiscriminatorThenGenerator ==
    /\ pc # "idle" => trace = SubSeq(FullTrace, 1, PcIndex[pc])
    /\ (pc = "idle" /\ global_step > 0) => trace = FullTrace
    /\ \A i \in 1..Len(steps) : steps[i] = IF i % 2 = 1 THEN "D" ELSE "G"
    /\ pc \in {"idle", "log_dict"} =>
          Len(steps) = 2 * (global_step + IF pc = "log_dict" THEN 1 ELSE 0)

C2_Witness ==
    /\ pc = "idle"
    /\ global_step >= 2
    /\ SubSeq(steps, 1, 4) = <<"D", "G", "D", "G">>

\* the part of C3 about the tracker: written only for batch 0 under a
\* WandbLogger with wandb importable, at most once per epoch, with
\* min(5, batch size) examples of 3 clips and 3 (fine-tuning: 4) images
C3_Plots ==
    /\ last.written =>
          /\ last.batch_idx = 0 /\ logger = "WandbLogger" /\ HAVE_WANDB
          /\ Len(last.clips) = 3 * Min(5, last.B)
          /\ Len(last.specs) = (IF finetune THEN 4 ELSE 3) * Min(5, last.B)
    /\ epoch_writes <= 1

\* C3: every validation_step call computes the L1 mel loss and logs it as
\* val_loss, whatever batch_idx; the tracker is written only for batch 0
\* under a WandbLogger with wandb importable, so at most once per epoch,
\* with min(5, batch size) examples of 3 clips and 3 (fine-tuning: 4) images.
C3_EveryCallLogsValLoss ==
    /\ last.op = "validation_step" => last.logged
    /\ C3_Plots

\* C4: each output magnitude is max(0, input magnitude - denoise_strength *
\* bias at that frequency), the bias being frame 0 of the STFT of the
\* zero-mel output, the same for all frames; it is never negative and the
\* phase of each bin is the input's.
C4_SpectralOffset ==
    last.status = "ok" =>
        /\ Len(last.out_audio) = BDim(Len(last.in_audio), Len(stft_bias.t))
        /\ \A b \in 1..Len(last.out_audio), f \in 1..NumFreq :
              /\ Len(last.out_audio[b][f]) = Len(last.in_audio[1][f])
              /\ stft_bias.t[Bcast(b, Len(stft_bias.t))][f]
                    = << Mag(Forward(bias_gp, << <<0>> >>)[1][f][1]) >>
              /\ \A t \in 1..Len(last.out_audio[b][f]) :
                    LET x    == last.in_audio[Bcast(b, Len(last.in_audio))][f][t]
                        y    == last.out_audio[b][f][t]
                        want == Max(0, Mag(x) - denoise_strength
                                         * stft_bias.t[Bcast(b, Len(stft_bias.t))][f][1])
                    IN  /\ Mag(y) = want
                        /\ want >= 0
                        /\ last.out_phase[Bcast(b, Len(last.out_phase))][f][t]
                              = Atan2(x[2], x[1])
                        /\ want > 0 => Atan2(y[2], y[1]) = Atan2(x[2], x[1])

\* a call whose output has a clamped bin and a reduced, still positive bin
C4_Witness ==
    /\ last.op = "_bias_denoise"
    /\ last.status = "ok"
    /\ denoise_strength > 0
    /\ \E b \in 1..Len(last.out_audio), f \in 1..NumFreq, t \in 1..MaxFrames :
          /\ Mag(last.in_audio[Bcast(b, Len(last.in_audio))][f][t]) > 0
          /\ Mag(last.out_audio[b][f][t]) = 0
    /\ \E b \in 1..Len(last.out_audio), f \in 1..NumFreq, t \in 1..MaxFrames :
          /\ Mag(last.out_audio[b][f][t]) > 0
          /\ Mag(last.out_audio[b][f][t])
                < Mag(last.in_audio[Bcast(b, Len(last.in_audio))][f][t])

\* C5: when optim_d.step runs, the discriminator gradients come only from
\* this call's loss_d; when optim_g.step runs, the generator gradients come
\* only from this call's loss_g; yet the generator pass of the previous call
\* had left gradients on the discriminators.
C5_NoStaleGradient ==
    /\ (pc = "optim_d.zero_grad" /\ global_step >= 1) =>
          \A m \in Discriminators : <<global_step - 1, "loss_g">> \in grads[m].from
    /\ pc = "optim_d.step" =>
          \A m \in Discriminators :
              grads[m] = [defined |-> TRUE, from |-> {<<global_step, "loss_d">>}]
    /\ pc = "optim_g.step" =>
          grads["generator"] = [defined |-> TRUE, from |-> {<<global_step, "loss_g">>}]

\* the second call is about to step the discriminators: the generator pass
\* of the first call had left its gradients on them
C5_Witness ==
    /\ pc = "optim_d.step"
    /\ global_step >= 1
    /\ \A m \in Discriminators : params[m] = global_step

\* C6: optim_g owns the generator only, optim_d the two discriminators only;
\* the discriminator phase leaves the generator's parameters and gradients
\* unchanged and optim_g.step leaves the discriminators' parameters unchanged.
C6_DisjointUpdates ==
    /\ [](optim.set => /\ optim.g = {"generator"}
                       /\ optim.d = Discriminators
                       /\ optim.g \cap optim.d = {})
    /\ [][/\ pc \in {"optim_d.zero_grad", "backward_d", "optim_d.step"} =>
               /\ params'["generator"] = params["generator"]
               /\ grads'["generator"] = grads["generator"]
          /\ pc = "optim_g.step" =>
               \A m \in Discriminators : params'[m] = params[m]]_vars

\* the generator's gradients of the previous call are still there after the
\* discriminator phase of this call
C6_Witness ==
    /\ pc = "optim_g.zero_grad"
    /\ global_step >= 1
    /\ grads["generator"].from = {<<global_step - 1, "loss_g">>}
    /\ params["mpd"] = global_step + 1
    /\ params["generator"] = global_step

BadCfg(cfg) ==
    \/ cfg.dataset \in {"absent", "not_DictConfig"}
    \/ cfg.dataloader_params \in {"absent", "not_DictConfig"}

\* C7: setup fails with ValueError when the config has no DictConfig
\* "dataset" or no DictConfig "dataloader_params"; the failure comes before
\* any dataset is instantiated and leaves _train_dl and _validation_dl as
\* they were.
C7_SetupFailsCleanly ==
    /\ [](last_setup.op # "none" =>
            (BadCfg(last_setup.cfg) <=> last_setup.status = "ValueError"))
    /\ [][last_setup'.status = "ValueError" =>
            UNCHANGED <<train_dl, validation_dl, instantiated>>]_vars

\* a failed setup_validation_data after a successful one
C7_Witness ==
    /\ last_setup.op = "setup_validation_data"
    /\ last_setup.status = "ValueError"
    /\ last_setup.cfg.dataset \in DatasetKinds
    /\ validation_dl.dataset # "none"
    /\ instantiated >= 1

====
